---- MODULE Spec2Model ----
(***************************************************************************)
(* Model of the Windows service lifecycle controller of                   *)
(* service/service_windows.go: beatService.Execute with its multiplexer   *)
(* goroutine, trySendState, beatService.stop /                            *)
(* notifyWindowsServiceStopped, ProcessWindowsControlEvents and           *)
(* WaitExecutionDone.  The service manager (golang.org/x/sys/windows/svc) *)
(* and the hosting application are the environment.                       *)
(*                                                                         *)
(* Execute calls trySendState(svc.StopPending) and                        *)
(* trySendState(svc.Stopped) without the second argument of               *)
(* trySendState(s, changes); they are modelled as sends on the changes    *)
(* channel of Execute, the only value of that type in scope.  The stop    *)
(* callback is taken to be a non-nil function.  A runtime panic ends the  *)
(* process: once panicked, no goroutine takes a step.                     *)
(***************************************************************************)
EXTENDS Naturals, Sequences, FiniteSets, TLC

(* Bounds of the model. *)
MaxRequests == 2
MaxStopCalls == 2

VARIABLES
    pc,               \* position of beatService.Execute
    muxpc,            \* position of the goroutine started by Execute
    muxItem,          \* the ChangeRequest the goroutine is sending on combinedChan
    c,                \* the ChangeRequest the event loop is handling
    r,                \* control requests the service manager has pending on r
    rClosed,          \* the service manager closed r
    requested,        \* the commands the service manager has issued so far
    issued,           \* number of control requests the service manager issued
    done,             \* serviceInstance.done is closed
    doneAt,           \* the phase Execute was in when done was closed
    executeFinished,  \* serviceInstance.executeFinished is closed
    panicked,         \* the process died of a runtime panic
    sinkAccepts,      \* the service manager still receives from changes
    svcStatus,        \* the status the service manager last received
    trace,            \* what Execute did that is observable: reports and callback
    consumed,         \* the requests the event loop took from combinedChan
    trigger,          \* which source the stop-class request came from
    stopCalls,        \* number of calls of notifyWindowsServiceStopped
    before,           \* controller state when the last request left r
    ppc,              \* position of ProcessWindowsControlEvents
    exitPath,         \* the path on which ProcessWindowsControlEvents left
    wpc,              \* position of WaitExecutionDone
    isWinService,     \* what svc.IsWindowsService answered to WaitExecutionDone
    wcause            \* why WaitExecutionDone returned

vars == <<pc, muxpc, muxItem, c, r, rClosed, requested, issued, done, doneAt,
          executeFinished, panicked,
          sinkAccepts, svcStatus, trace, consumed, trigger, stopCalls,
          before, ppc, exitPath, wpc, isWinService, wcause>>

(* svc.Cmd values the service manager issues: three are handled by        *)
(* Execute, Pause stands for the rest.  "Zero" is the Cmd of the zero     *)
(* svc.ChangeRequest, which is none of them.                              *)
Cmds == {"Interrogate", "Stop", "Shutdown", "Pause"}

StopClass == {"Stop", "Shutdown"}

(* const cmdsAccepted = svc.AcceptStop | svc.AcceptShutdown *)
cmdsAccepted == {"Stop", "Shutdown"}

Status(state, accepts) == [State |-> state, Accepts |-> accepts]

NoStatus == Status("none", {})

ChangeRequest(cmd, status) == [Cmd |-> cmd, CurrentStatus |-> status]

NoRequest == ChangeRequest("none", NoStatus)

(* One observable event of Execute. *)
Event(kind, status, outcome) == [kind |-> kind, status |-> status, outcome |-> outcome]

Init ==
    /\ pc = "notstarted"
    /\ muxpc = "notstarted"
    /\ muxItem = NoRequest
    /\ c = NoRequest
    /\ r = <<>>
    /\ rClosed = FALSE
    /\ requested = {}
    /\ issued = 0
    /\ done = FALSE
    /\ doneAt = "never"
    /\ executeFinished = FALSE
    /\ panicked = FALSE
    /\ sinkAccepts \in BOOLEAN
    /\ svcStatus = NoStatus
    /\ trace = <<>>
    /\ consumed = <<>>
    /\ trigger = "none"
    /\ stopCalls = 0
    /\ before = [pc |-> "none", trace |-> <<>>]
    /\ ppc = "idle"
    /\ exitPath = "none"
    /\ wpc = "idle"
    /\ isWinService = "unknown"
    /\ wcause = "none"

(* Each group of variables, for UNCHANGED. *)
execVars == <<pc, c, svcStatus, trace, consumed, trigger>>

muxVars == <<muxpc, muxItem, before>>

envVars ==
    <<r, rClosed, requested, issued, done, doneAt, panicked, sinkAccepts, stopCalls>>

hostVars == <<executeFinished, ppc, exitPath>>

waitVars == <<wpc, isWinService, wcause>>

(***************************************************************************)
(* A plain send on changes: it completes only when the service manager    *)
(* receives.                                                               *)
(***************************************************************************)
Send(kind, status, next) ==
    /\ sinkAccepts
    /\ trace' = Append(trace, Event(kind, status, "sent"))
    /\ svcStatus' = status
    /\ pc' = next

(* trySendState without the timer case. *)
trySendState_NoTimeout(s, next) ==
    Send("report", Status(s, {}), next)

(***************************************************************************)
(* trySendState: a select over the send and a 500 ms timer.               *)
(***************************************************************************)
trySendState(s, next) ==
    \/ Send("report", Status(s, {}), next)
    \/ /\ trace' = Append(trace, Event("report", Status(s, {}), "timeout"))
       /\ pc' = next
       /\ UNCHANGED svcStatus

(***************************************************************************)
(* beatService.Execute                                                     *)
(***************************************************************************)

(* changes <- svc.Status{State: svc.StartPending} *)
ExecuteStartPending ==
    /\ ~panicked
    /\ pc = "start"
    /\ Send("report", Status("StartPending", {}), "running")
    /\ UNCHANGED <<c, consumed, trigger, muxVars, envVars, hostVars, waitVars>>

(* changes <- svc.Status{State: svc.Running, Accepts: cmdsAccepted} *)
ExecuteRunning ==
    /\ ~panicked
    /\ pc = "running"
    /\ Send("report", Status("Running", cmdsAccepted), "go")
    /\ UNCHANGED <<c, consumed, trigger, muxVars, envVars, hostVars, waitVars>>

(* combinedChan := make(chan svc.ChangeRequest); go func() {...}() *)
ExecuteGo ==
    /\ ~panicked
    /\ pc = "go"
    /\ pc' = "loop"
    /\ muxpc' = "select"
    /\ UNCHANGED <<c, svcStatus, trace, consumed, trigger, muxItem, before,
                   envVars, hostVars, waitVars>>

(* The goroutine's select, case c := <-r.  The service manager hands over *)
(* the request together with the status it last received; a receive from  *)
(* the closed and drained channel yields the zero svc.ChangeRequest.      *)
MuxRequest ==
    /\ ~panicked
    /\ muxpc = "select"
    /\ \/ /\ r # <<>>
          /\ muxItem' = ChangeRequest(Head(r), svcStatus)
          /\ r' = Tail(r)
       \/ /\ r = <<>>
          /\ rClosed
          /\ muxItem' = ChangeRequest("Zero", NoStatus)
          /\ UNCHANGED r
    /\ before' = [pc |-> pc, trace |-> trace]
    /\ muxpc' = "sendRequest"
    /\ UNCHANGED <<execVars, rClosed, requested, issued, done, doneAt, panicked,
                   sinkAccepts, stopCalls, hostVars, waitVars>>

(* The goroutine's select, case <-m.done. *)
MuxDone ==
    /\ ~panicked
    /\ muxpc = "select"
    /\ done
    /\ muxItem' = ChangeRequest("Shutdown", NoStatus)
    /\ muxpc' = "sendShutdown"
    /\ UNCHANGED <<execVars, before, envVars, hostVars, waitVars>>

(* Dispatch with the default case leaving the loop. *)
Dispatch_DefaultStops(cmd) ==
    CASE cmd = "Interrogate" -> "echo1"
      [] OTHER -> "stopPending"

(* Dispatch with svc.Shutdown going past the StopPending report. *)
Dispatch_ShutdownSkipsPending(cmd) ==
    CASE cmd = "Interrogate" -> "echo1"
      [] cmd = "Stop" -> "stopPending"
      [] cmd = "Shutdown" -> "callback"
      [] OTHER -> "loop"

(* Where the event loop goes on a request: the switch on c.Cmd. *)
Dispatch(cmd) ==
    CASE cmd = "Interrogate" -> "echo1"
      [] cmd = "Stop" -> "stopPending"
      [] cmd = "Shutdown" -> "stopPending"
      [] OTHER -> "loop"

(* AfterSend with the select inside a for loop: back to the select after  *)
(* a forwarded request, out after the synthesized Shutdown.               *)
AfterSend_Loops(at) ==
    IF at = "sendRequest" THEN "select" ELSE "exited"

(* Where the goroutine is once its send on combinedChan completed: the    *)
(* select is not inside a loop, so the function ends in both cases.       *)
AfterSend(at) ==
    "exited"

(* combinedChan is unbuffered: the goroutine's send and the receive of    *)
(* `for c := range combinedChan` complete together.                       *)
LoopReceive ==
    /\ ~panicked
    /\ pc = "loop"
    /\ muxpc \in {"sendRequest", "sendShutdown"}
    /\ c' = muxItem
    /\ consumed' = Append(consumed, muxItem.Cmd)
    /\ trigger' = IF muxItem.Cmd \in StopClass
                  THEN (IF muxpc = "sendRequest" THEN "request" ELSE "signal")
                  ELSE trigger
    /\ pc' = Dispatch(muxItem.Cmd)
    /\ muxpc' = AfterSend(muxpc)
    /\ muxItem' = NoRequest
    /\ UNCHANGED <<svcStatus, trace, before, envVars, hostVars, waitVars>>

(* case svc.Interrogate: changes <- c.CurrentStatus *)
LoopEcho1 ==
    /\ ~panicked
    /\ pc = "echo1"
    /\ Send("echo", c.CurrentStatus, "sleep")
    /\ UNCHANGED <<c, consumed, trigger, muxVars, envVars, hostVars, waitVars>>

(* LoopSleep with the second echo left out. *)
LoopSleep_OneEcho ==
    /\ ~panicked
    /\ pc = "sleep"
    /\ pc' = "loop"
    /\ UNCHANGED <<c, svcStatus, trace, consumed, trigger, muxVars, envVars,
                   hostVars, waitVars>>

(* time.Sleep(100 * time.Millisecond) *)
LoopSleep ==
    /\ ~panicked
    /\ pc = "sleep"
    /\ pc' = "echo2"
    /\ UNCHANGED <<c, svcStatus, trace, consumed, trigger, muxVars, envVars,
                   hostVars, waitVars>>

(* changes <- c.CurrentStatus, the second time; the loop continues. *)
LoopEcho2 ==
    /\ ~panicked
    /\ pc = "echo2"
    /\ Send("echo", c.CurrentStatus, "loop")
    /\ UNCHANGED <<c, consumed, trigger, muxVars, envVars, hostVars, waitVars>>

(* ShutdownStopPending reporting the terminal state already. *)
ShutdownStopPending_ReportsStopped ==
    /\ ~panicked
    /\ pc = "stopPending"
    /\ trySendState("Stopped", "callback")
    /\ UNCHANGED <<c, consumed, trigger, muxVars, envVars, hostVars, waitVars>>

(* trySendState(svc.StopPending) *)
ShutdownStopPending ==
    /\ ~panicked
    /\ pc = "stopPending"
    /\ trySendState("StopPending", "callback")
    /\ UNCHANGED <<c, consumed, trigger, muxVars, envVars, hostVars, waitVars>>

(* ShutdownCallback with trySendState(svc.Stopped) run at once, not deferred. *)
ShutdownCallback_StoppedNotDeferred ==
    /\ ~panicked
    /\ pc = "callback"
    /\ trace' = trace \o <<Event("report", Status("Stopped", {}), "timeout"),
                           Event("callback", NoStatus, "invoked")>>
    /\ pc' = "inCallback"
    /\ UNCHANGED <<c, svcStatus, consumed, trigger, muxVars, envVars, hostVars,
                   waitVars>>

(* m.stopCallback() is called *)
ShutdownCallback ==
    /\ ~panicked
    /\ pc = "callback"
    /\ trace' = Append(trace, Event("callback", NoStatus, "invoked"))
    /\ pc' = "inCallback"
    /\ UNCHANGED <<c, svcStatus, consumed, trigger, muxVars, envVars, hostVars,
                   waitVars>>

(* m.stopCallback() returns, after as long as the application takes. *)
CallbackReturns ==
    /\ ~panicked
    /\ pc = "inCallback"
    /\ trace' = Append(trace, Event("callback", NoStatus, "returned"))
    /\ pc' = "waitDone"
    /\ UNCHANGED <<c, svcStatus, consumed, trigger, muxVars, envVars, hostVars,
                   waitVars>>

(* ShutdownWaitDone receiving from executeFinished instead of done. *)
ShutdownWaitDone_WaitsExecuteFinished ==
    /\ ~panicked
    /\ pc = "waitDone"
    /\ executeFinished
    /\ pc' = "deferred"
    /\ UNCHANGED <<c, svcStatus, trace, consumed, trigger, muxVars, envVars,
                   hostVars, waitVars>>

(* ShutdownWaitDone with Stopped also reported before the return. *)
ShutdownWaitDone_ReportsStopped ==
    /\ ~panicked
    /\ pc = "waitDone"
    /\ done
    /\ trace' = Append(trace, Event("report", Status("Stopped", {}), "timeout"))
    /\ pc' = "deferred"
    /\ UNCHANGED <<c, svcStatus, consumed, trigger, muxVars, envVars, hostVars,
                   waitVars>>

(* ShutdownWaitDone without the receive from m.done. *)
ShutdownWaitDone_NoWait ==
    /\ ~panicked
    /\ pc = "waitDone"
    /\ pc' = "deferred"
    /\ UNCHANGED <<c, svcStatus, trace, consumed, trigger, muxVars, envVars,
                   hostVars, waitVars>>

(* <-m.done *)
ShutdownWaitDone ==
    /\ ~panicked
    /\ pc = "waitDone"
    /\ done
    /\ pc' = "deferred"
    /\ UNCHANGED <<c, svcStatus, trace, consumed, trigger, muxVars, envVars,
                   hostVars, waitVars>>

(* ExecuteReturn with no deferred report. *)
ExecuteReturn_NoReport ==
    /\ ~panicked
    /\ pc = "deferred"
    /\ pc' = "returned"
    /\ UNCHANGED <<c, svcStatus, trace, consumed, trigger, muxVars, envVars,
                   hostVars, waitVars>>

(* return ssec, errno: runs the deferred trySendState(svc.Stopped). *)
ExecuteReturn ==
    /\ ~panicked
    /\ pc = "deferred"
    /\ trySendState("Stopped", "returned")
    /\ UNCHANGED <<c, consumed, trigger, muxVars, envVars, hostVars, waitVars>>

Execute ==
    \/ ExecuteStartPending
    \/ ExecuteRunning
    \/ ExecuteGo
    \/ LoopReceive
    \/ LoopEcho1
    \/ LoopSleep
    \/ LoopEcho2
    \/ ShutdownStopPending
    \/ ShutdownCallback
    \/ CallbackReturns
    \/ ShutdownWaitDone
    \/ ExecuteReturn

(* The phase of Execute at position at. *)
Phase(at) ==
    CASE at \in {"loop", "echo1", "sleep", "echo2"} -> "loop"
      [] at \in {"stopPending", "callback"} -> "stopping"
      [] at = "inCallback" -> "inCallback"
      [] at = "waitDone" -> "waitDone"
      [] at \in {"deferred", "returned"} -> "end"
      [] OTHER -> "start"

(* stop as a send that is dropped when nobody is receiving from done. *)
stop_LostSignal ==
    /\ ~panicked
    /\ stopCalls < MaxStopCalls
    /\ stopCalls' = stopCalls + 1
    /\ done' = (done \/ pc = "waitDone" \/ muxpc = "select")
    /\ doneAt' = (IF done THEN doneAt ELSE Phase(pc))
    /\ UNCHANGED <<execVars, muxVars, r, rClosed, requested, issued, panicked,
                   sinkAccepts, hostVars, waitVars>>

(* stop guarded against the second close. *)
stop_Guarded ==
    /\ ~panicked
    /\ stopCalls < MaxStopCalls
    /\ stopCalls' = stopCalls + 1
    /\ done' = TRUE
    /\ doneAt' = (IF done THEN doneAt ELSE Phase(pc))
    /\ UNCHANGED <<execVars, muxVars, r, rClosed, requested, issued, panicked,
                   sinkAccepts, hostVars, waitVars>>

(***************************************************************************)
(* beatService.stop, reached through notifyWindowsServiceStopped:         *)
(* close(m.done).  Closing a closed channel is a runtime panic.           *)
(***************************************************************************)
stop ==
    /\ ~panicked
    /\ stopCalls < MaxStopCalls
    /\ stopCalls' = stopCalls + 1
    /\ IF done
       THEN panicked' = TRUE /\ UNCHANGED <<done, doneAt>>
       ELSE done' = TRUE /\ doneAt' = Phase(pc) /\ UNCHANGED panicked
    /\ UNCHANGED <<execVars, muxVars, r, rClosed, requested, issued, sinkAccepts,
                   hostVars, waitVars>>

(***************************************************************************)
(* ProcessWindowsControlEvents                                             *)
(***************************************************************************)

(* ProcessQuery logging the error and going on to run. *)
ProcessQuery_IgnoresError ==
    /\ ~panicked
    /\ ppc = "idle"
    /\ \E err \in BOOLEAN :
          IF err
          THEN ppc' = "run" /\ exitPath' = "queryError"
          ELSE ppc' = "run" /\ UNCHANGED exitPath
    /\ UNCHANGED <<execVars, muxVars, envVars, executeFinished, waitVars>>

(* svc.IsAnInteractiveSession(): on an error the function returns. *)
ProcessQuery ==
    /\ ~panicked
    /\ ppc = "idle"
    /\ \E err \in BOOLEAN :
          IF err
          THEN ppc' = "deferred" /\ exitPath' = "queryError"
          ELSE ppc' = "run" /\ UNCHANGED exitPath
    /\ UNCHANGED <<execVars, muxVars, envVars, executeFinished, waitVars>>

(* ProcessRunFails returning at once, with no deferred close. *)
ProcessRunFails_NoDefer ==
    /\ ~panicked
    /\ ppc = "run"
    /\ pc = "notstarted"
    /\ \E e \in {"couldNotConnect", "otherError"} : exitPath' = e
    /\ ppc' = "returned"
    /\ UNCHANGED <<execVars, muxVars, envVars, executeFinished, waitVars>>

(* run(os.Args[0], serviceInstance) fails to register: Execute is never   *)
(* called and err is couldNotConnect or another error.                    *)
ProcessRunFails ==
    /\ ~panicked
    /\ ppc = "run"
    /\ pc = "notstarted"
    /\ \E e \in {"couldNotConnect", "otherError"} : exitPath' = e
    /\ ppc' = "deferred"
    /\ UNCHANGED <<execVars, muxVars, envVars, executeFinished, waitVars>>

(* run(os.Args[0], serviceInstance) calls serviceInstance.Execute. *)
ProcessRunExecute ==
    /\ ~panicked
    /\ ppc = "run"
    /\ pc = "notstarted"
    /\ pc' = "start"
    /\ UNCHANGED <<c, svcStatus, trace, consumed, trigger, muxVars, envVars,
                   hostVars, waitVars>>

(* Execute returned, run returns nil. *)
ProcessRunReturns ==
    /\ ~panicked
    /\ ppc = "run"
    /\ pc = "returned"
    /\ ppc' = "deferred"
    /\ exitPath' = "ok"
    /\ UNCHANGED <<execVars, muxVars, envVars, executeFinished, waitVars>>

(* defer close(serviceInstance.executeFinished) *)
ProcessReturn ==
    /\ ~panicked
    /\ ppc = "deferred"
    /\ executeFinished' = TRUE
    /\ ppc' = "returned"
    /\ UNCHANGED <<execVars, muxVars, envVars, exitPath, waitVars>>

ProcessWindowsControlEvents ==
    \/ ProcessQuery
    \/ ProcessRunFails
    \/ ProcessRunExecute
    \/ ProcessRunReturns
    \/ ProcessReturn

(***************************************************************************)
(* WaitExecutionDone                                                       *)
(***************************************************************************)

(* isWinService, err := svc.IsWindowsService() *)
WaitQuery ==
    /\ ~panicked
    /\ wpc = "idle"
    /\ isWinService' \in {"yes", "no", "error"}
    /\ wpc' = "queried"
    /\ UNCHANGED <<execVars, muxVars, envVars, hostVars, wcause>>

(* if err != nil || !isWinService { return } *)
WaitBranch ==
    /\ ~panicked
    /\ wpc = "queried"
    /\ IF isWinService # "yes"
       THEN wpc' = "returned" /\ wcause' = "notService"
       ELSE wpc' = "select" /\ UNCHANGED wcause
    /\ UNCHANGED <<execVars, muxVars, envVars, hostVars, isWinService>>

(* case <-serviceInstance.executeFinished *)
WaitFinished ==
    /\ ~panicked
    /\ wpc = "select"
    /\ executeFinished
    /\ wpc' = "returned"
    /\ wcause' = "finished"
    /\ UNCHANGED <<execVars, muxVars, envVars, hostVars, isWinService>>

(* WaitTimeout with a timer that never fires before the exit marker. *)
WaitTimeout_NoTimer ==
    /\ ~panicked
    /\ wpc = "select"
    /\ executeFinished
    /\ wpc' = "returned"
    /\ wcause' = "timeout"
    /\ UNCHANGED <<execVars, muxVars, envVars, hostVars, isWinService>>

(* case <-time.After(500 * time.Millisecond) *)
WaitTimeout ==
    /\ ~panicked
    /\ wpc = "select"
    /\ wpc' = "returned"
    /\ wcause' = "timeout"
    /\ UNCHANGED <<execVars, muxVars, envVars, hostVars, isWinService>>

WaitExecutionDone ==
    \/ WaitQuery
    \/ WaitBranch
    \/ WaitFinished
    \/ WaitTimeout

(***************************************************************************)
(* The environment: the service manager behind r and changes.             *)
(***************************************************************************)

(* The service manager issues a control request to the running handler. *)
svcRequest ==
    /\ ~panicked
    /\ pc \notin {"notstarted", "returned"}
    /\ ~rClosed
    /\ issued < MaxRequests
    /\ \E cmd \in Cmds :
          /\ r' = Append(r, cmd)
          /\ requested' = requested \cup {cmd}
    /\ issued' = issued + 1
    /\ UNCHANGED <<execVars, muxVars, rClosed, done, doneAt, panicked, sinkAccepts,
                   stopCalls, hostVars, waitVars>>

(* The service manager closes r: no request follows the pending ones. *)
svcClose ==
    /\ ~panicked
    /\ pc \notin {"notstarted", "returned"}
    /\ ~rClosed
    /\ rClosed' = TRUE
    /\ UNCHANGED <<execVars, muxVars, r, requested, issued, done, doneAt, panicked,
                   sinkAccepts, stopCalls, hostVars, waitVars>>

(* The service manager stops receiving from changes, for good. *)
svcStall ==
    /\ ~panicked
    /\ sinkAccepts
    /\ sinkAccepts' = FALSE
    /\ UNCHANGED <<execVars, muxVars, r, rClosed, requested, issued, done, doneAt,
                   panicked, stopCalls, hostVars, waitVars>>

Next ==
    \/ Execute
    \/ MuxRequest
    \/ MuxDone
    \/ stop
    \/ ProcessWindowsControlEvents
    \/ WaitExecutionDone
    \/ svcRequest
    \/ svcClose
    \/ svcStall

Spec == Init /\ [][Next]_vars

(***************************************************************************)
(* The scheduling the runtime gives: every goroutine that can take a step *)
(* eventually does, timers fire, the stop callback returns, and a service *)
(* manager that receives from changes does so eventually.  Nothing is     *)
(* assumed of stop, svcRequest and svcStall.                               *)
(***************************************************************************)
FairSpec ==
    /\ Spec
    /\ WF_vars(Execute)
    /\ WF_vars(MuxRequest \/ MuxDone)
    /\ WF_vars(ProcessWindowsControlEvents)
    /\ WF_vars(WaitBranch \/ WaitFinished \/ WaitTimeout)

(***************************************************************************)
(* Reading the trace                                                       *)
(***************************************************************************)
Last(s) == s[Len(s)]

Reports(state) ==
    {i \in 1..Len(trace) : trace[i].kind = "report" /\ trace[i].status.State = state}

Echoes == {i \in 1..Len(trace) : trace[i].kind = "echo"}

Callbacks(outcome) ==
    {i \in 1..Len(trace) : trace[i].kind = "callback" /\ trace[i].outcome = outcome}

Count(seq, x) == Cardinality({i \in 1..Len(seq) : seq[i] = x})

Kinds == [i \in 1..Len(trace) |-> <<trace[i].kind, trace[i].status.State>>]

ShutdownSequence ==
    << <<"report", "StartPending">>, <<"report", "Running">>,
       <<"report", "StopPending">>, <<"callback", "none">>,
       <<"callback", "none">>, <<"report", "Stopped">> >>

ReportPositions == {"start", "running", "echo1", "echo2", "stopPending", "deferred"}

(***************************************************************************)
(* C1: whatever the interleaving of notifyWindowsServiceStopped and an    *)
(* inbound Stop or Shutdown, one run of Execute takes at most one         *)
(* stop-class request from the combined stream, reports StopPending at    *)
(* most once and Stopped at most once, and has reported each exactly once *)
(* when it returns.                                                        *)
(***************************************************************************)
C1_StopReportedOnce ==
    /\ Cardinality({i \in 1..Len(consumed) : consumed[i] \in StopClass}) <= 1
    /\ Cardinality(Reports("StopPending")) <= 1
    /\ Cardinality(Reports("Stopped")) <= 1
    /\ pc = "returned" =>
          /\ Cardinality(Reports("StopPending")) = 1
          /\ Cardinality(Reports("Stopped")) = 1

(* Both triggers occurred, the signal won, the run ended. *)
C1_Witness ==
    /\ pc = "returned"
    /\ trigger = "signal"
    /\ r # <<>>
    /\ Head(r) \in StopClass

(***************************************************************************)
(* C2: a request pending on r while the event loop waits on the combined  *)
(* stream can be forwarded: either the goroutine can take it from r or    *)
(* the loop can receive what the goroutine is sending.                    *)
(***************************************************************************)
C2_PendingRequestForwarded ==
    (~panicked /\ pc = "loop" /\ r # <<>>) => ENABLED (MuxRequest \/ LoopReceive)

(***************************************************************************)
(* C3: a run that returns shows the same sequence of reports and callback *)
(* events whether the stop came as a request or from the signal; when it  *)
(* came from the signal the loop took exactly one request, the            *)
(* synthesized Shutdown.                                                   *)
(***************************************************************************)
C3_SameShutdownSequence ==
    pc = "returned" =>
        /\ trigger \in {"request", "signal"}
        /\ Kinds = ShutdownSequence
        /\ trigger = "signal" => consumed = <<"Shutdown">>

(* Stopped by the signal with no inbound request at all. *)
C3_Witness ==
    /\ pc = "returned"
    /\ trigger = "signal"
    /\ issued = 0

(***************************************************************************)
(* C4: while done is not closed the shutdown sequence stays at the wait   *)
(* after the callback: Execute has no step there, Stopped is not reported *)
(* and Execute has not returned.                                           *)
(***************************************************************************)
C4_SuspendedUntilDone ==
    /\ (~panicked /\ pc = "waitDone" /\ ~done) => ~ENABLED Execute
    /\ ~done => (Reports("Stopped") = {} /\ pc \notin {"deferred", "returned"})

(* The callback returned and done is not closed. *)
C4_Witness ==
    /\ pc = "waitDone"
    /\ ~done
    /\ Callbacks("returned") # {}

(***************************************************************************)
(* C5: every echo carries the status the service manager holds, Running   *)
(* with the accepted commands; once the loop is back waiting there are    *)
(* exactly two echoes per Interrogate taken, and nothing else happened:   *)
(* no StopPending report, no callback, the held status unchanged.         *)
(***************************************************************************)
C5_InterrogateEchoedTwice ==
    /\ \A i \in Echoes : trace[i].status = Status("Running", cmdsAccepted)
    /\ pc = "loop" =>
          /\ Cardinality(Echoes) = 2 * Count(consumed, "Interrogate")
          /\ svcStatus = Status("Running", cmdsAccepted)
          /\ Reports("StopPending") = {}
          /\ Callbacks("invoked") = {}

(* An Interrogate was handled and the loop waits again. *)
C5_Witness ==
    /\ pc = "loop"
    /\ consumed = <<"Interrogate">>
    /\ Cardinality(Echoes) = 2

(***************************************************************************)
(* C6: once a request with an unknown code has been handled, the          *)
(* controller is as it was before the request left r: same position, same *)
(* reports, and the goroutine still there to forward what comes later.    *)
(***************************************************************************)
C6_UnknownChangesNothing ==
    (~panicked /\ consumed # <<>> /\ Last(consumed) = "Pause") =>
        /\ pc = before.pc
        /\ trace = before.trace
        /\ muxpc # "exited"

(***************************************************************************)
(* C7, as claimed: with a service manager that no longer receives, no     *)
(* report keeps Execute from its next step.                               *)
(***************************************************************************)
C7_NoReportBlocks ==
    (~panicked /\ ~sinkAccepts /\ pc \in ReportPositions) => ENABLED Execute

(***************************************************************************)
(* C7, amended: with a service manager that no longer receives, the       *)
(* StopPending and Stopped reports do not keep Execute from its next      *)
(* step, and a run that is at the StopPending report with done closed     *)
(* returns; the StartPending, Running and echo sends do block.            *)
(***************************************************************************)
C7_ShutdownReportsBounded ==
    /\ [](( ~panicked /\ ~sinkAccepts /\ pc \in {"stopPending", "deferred"})
            => ENABLED Execute)
    /\ [](( ~panicked /\ ~sinkAccepts /\ pc \in {"start", "running", "echo1", "echo2"})
            => ~ENABLED Execute)
    /\ (~sinkAccepts /\ pc = "stopPending" /\ done) ~> (pc = "returned" \/ panicked)

(* Both shutdown reports timed out and Execute returned. *)
C7_Witness ==
    /\ ~sinkAccepts
    /\ pc = "returned"
    /\ \E i \in Reports("StopPending") : trace[i].outcome = "timeout"
    /\ \E i \in Reports("Stopped") : trace[i].outcome = "timeout"

(***************************************************************************)
(* C8: WaitExecutionDone reaches its select only when the query said the  *)
(* process is a Windows service, and a call always returns (unless the    *)
(* process dies first), also when executeFinished is never closed.        *)
(***************************************************************************)
C8_WaitAlwaysReturns ==
    /\ [](wpc = "select" => isWinService = "yes")
    /\ [](wcause = "notService" => isWinService \in {"no", "error"})
    /\ (wpc = "queried") ~> (wpc = "returned" \/ panicked)

(* Returned by the timer while the exit marker is not fired. *)
C8_Witness ==
    /\ wpc = "returned"
    /\ wcause = "timeout"
    /\ ~executeFinished

(***************************************************************************)
(* C9, as claimed: a second call of notifyWindowsServiceStopped does not  *)
(* fail.                                                                   *)
(***************************************************************************)
C9_SecondStopIsNoOp ==
    stopCalls >= 2 => ~panicked

(***************************************************************************)
(* C9, amended: the first call closes done; any later call panics on the  *)
(* closed channel and ends the process; no call starts a second shutdown  *)
(* sequence.                                                               *)
(***************************************************************************)
C9_SecondStopPanics ==
    /\ stopCalls = 1 => (done /\ ~panicked)
    /\ stopCalls >= 2 => (done /\ panicked)
    /\ Cardinality(Reports("StopPending")) <= 1
    /\ Cardinality(Callbacks("invoked")) <= 1

(* A second call was made while the shutdown sequence was under way. *)
C9_Witness ==
    /\ stopCalls = 2
    /\ panicked
    /\ Callbacks("invoked") # {}

(***************************************************************************)
(* C10: the callback is invoked at most once, only after the StopPending  *)
(* report was tried, and the Stopped report is tried only after the       *)
(* callback returned.                                                      *)
(***************************************************************************)
C10_CallbackOrder ==
    /\ Cardinality(Callbacks("invoked")) <= 1
    /\ \A i \in Callbacks("invoked") : \E j \in Reports("StopPending") : j < i
    /\ \A i \in Reports("Stopped") : \E j \in Callbacks("returned") : j < i

(* The run ended and its StopPending report had timed out. *)
C10_Witness ==
    /\ pc = "returned"
    /\ \E i \in Reports("StopPending") : trace[i].outcome = "timeout"
    /\ Callbacks("returned") # {}

(***************************************************************************)
(* C11: the reports the service manager received come in state order:     *)
(* StartPending, Running, the echoes (of Running), StopPending, Stopped.  *)
(* No state follows a later one, no state other than the echoed Running   *)
(* is received twice, and nothing is tried after the Stopped report.      *)
(***************************************************************************)
Rank(state) ==
    CASE state = "StartPending" -> 1
      [] state = "Running" -> 2
      [] state = "StopPending" -> 3
      [] state = "Stopped" -> 4
      [] OTHER -> 0

Received ==
    {i \in 1..Len(trace) : trace[i].kind \in {"report", "echo"} /\ trace[i].outcome = "sent"}

C11_ReportsInStateOrder ==
    /\ \A i \in Received : Rank(trace[i].status.State) > 0
    /\ \A i, j \in Received :
          i < j => Rank(trace[i].status.State) <= Rank(trace[j].status.State)
    /\ \A i, j \in Received :
          (i < j /\ trace[i].status.State = trace[j].status.State)
              => trace[j].kind = "echo"
    /\ \A i \in Reports("Stopped") : i = Len(trace)

(* All four reports were received, in a run that ended. *)
C11_Witness ==
    /\ pc = "returned"
    /\ Cardinality(Received) = 4
    /\ trace[Len(trace)] = Event("report", Status("Stopped", {}), "sent")

(***************************************************************************)
(* C12, as claimed: after a shutdown triggered by the stop signal, fired  *)
(* once, the wait after the callback is not released: a second, separate  *)
(* firing is needed before Execute goes on to report Stopped.             *)
(***************************************************************************)
C12_StopSignalDoesNotReleaseWait ==
    (trigger = "signal" /\ stopCalls = 1) => pc \notin {"deferred", "returned"}

(***************************************************************************)
(* C12, amended: the stop signal and the completion signal are the one    *)
(* channel done.  A shutdown triggered by the signal finds done closed,   *)
(* so the wait after the callback is released without any further        *)
(* firing; only a shutdown triggered by an inbound request, with done     *)
(* still open, blocks there until done is closed.                         *)
(***************************************************************************)
C12_OneSignalForBoth ==
    /\ trigger = "signal" => done
    /\ (~panicked /\ pc = "waitDone" /\ trigger = "signal") => ENABLED ShutdownWaitDone
    /\ (pc = "waitDone" /\ trigger = "request" /\ ~done) => ~ENABLED ShutdownWaitDone
    /\ pc \in {"deferred", "returned"} => done

(* One firing of done took the run from the loop to the return. *)
C12_Witness ==
    /\ pc = "returned"
    /\ trigger = "signal"
    /\ stopCalls = 1
    /\ Reports("Stopped") # {}

(***************************************************************************)
(* C13: once done is closed, a controller that has started and not yet    *)
(* returned is never stuck while the service manager receives: Execute or *)
(* its goroutine has a step to take towards the Stopped report.           *)
(***************************************************************************)
C13_StopSignalNeverDeadlocks ==
    (~panicked /\ done /\ sinkAccepts /\ pc \notin {"notstarted", "returned"})
        => ENABLED (Execute \/ MuxRequest \/ MuxDone)

(***************************************************************************)
(* C14: Execute is past its event loop, has tried the StopPending report  *)
(* or has invoked the callback only if the service manager issued a Stop  *)
(* or Shutdown request or done is closed.  With r closed, no stop-class   *)
(* request issued and done open, a started controller is in its loop.     *)
(***************************************************************************)
PastLoop == {"stopPending", "callback", "inCallback", "waitDone", "deferred", "returned"}

InLoop == {"loop", "echo1", "sleep", "echo2"}

C14_NoShutdownWithoutTrigger ==
    /\ (pc \in PastLoop \/ Reports("StopPending") # {} \/ Callbacks("invoked") # {})
          => (done \/ requested \cap StopClass # {})
    /\ (rClosed /\ ~done /\ requested \cap StopClass = {} /\ muxpc # "notstarted")
          => pc \in InLoop

(* r was closed and drained, the zero request was handled, done is open. *)
C14_Witness ==
    /\ rClosed
    /\ ~done
    /\ consumed # <<>>
    /\ Last(consumed) = "Zero"
    /\ pc = "loop"
    /\ svcStatus = Status("Running", cmdsAccepted)

(***************************************************************************)
(* C15: executeFinished is closed exactly when ProcessWindowsControlEvents*)
(* has returned, whichever of its four exit paths it took; it is closed   *)
(* by the one step that makes the function return, never reopened, and    *)
(* never closed while Execute is running.                                  *)
(***************************************************************************)
ExitPaths == {"queryError", "ok", "couldNotConnect", "otherError"}

C15_ExitMarkerOnEveryPath ==
    /\ [](executeFinished <=> ppc = "returned")
    /\ [](ppc \in {"deferred", "returned"} <=> exitPath \in ExitPaths)
    /\ [](executeFinished => pc \in {"notstarted", "returned"})
    /\ [][executeFinished' # executeFinished
            => (~executeFinished /\ ppc = "deferred" /\ ppc' = "returned")]_vars

(* The marker is closed after a run of Execute that returned. *)
C15_Witness ==
    /\ executeFinished
    /\ exitPath = "ok"
    /\ pc = "returned"

FailurePaths == {"queryError", "couldNotConnect", "otherError"}

C17_FailureNeverStarts ==
    exitPath \in FailurePaths =>
        /\ pc = "notstarted"
        /\ muxpc = "notstarted"
        /\ trace = <<>>
        /\ svcStatus = NoStatus
        /\ ppc \in {"deferred", "returned"}
        /\ (~panicked /\ ppc = "deferred") => ENABLED ProcessReturn

(* The function returned after a failed interactive-session query. *)
C17_Witness ==
    /\ ppc = "returned"
    /\ exitPath = "queryError"
    /\ executeFinished

(***************************************************************************)
(* C18: a close of done is remembered.  Once notifyWindowsServiceStopped  *)
(* was called done stays closed, so the wait after the callback is        *)
(* released whenever Execute gets there, and a shutdown sequence under    *)
(* way with done closed runs to the return (unless the process dies).     *)
(***************************************************************************)
C18_CompletionRemembered ==
    /\ [](stopCalls >= 1 => done)
    /\ []((~panicked /\ stopCalls >= 1 /\ pc = "waitDone") => ENABLED ShutdownWaitDone)
    /\ (stopCalls >= 1 /\ pc \in {"stopPending", "callback", "inCallback", "waitDone"})
          ~> (pc = "returned" \/ panicked)

(* done was closed while the callback ran, before the wait; Execute returned. *)
C18_Witness ==
    /\ pc = "returned"
    /\ trigger = "request"
    /\ doneAt = "inCallback"
    /\ Reports("Stopped") # {}

(***************************************************************************)
(* C19: the goroutine is never left blocked on its send.  Whenever it is  *)
(* sending, the event loop is at its receive; once Execute is past the    *)
(* loop the goroutine has ended with nothing in flight; and a goroutine   *)
(* one of whose sources has fired ends (unless the process dies).         *)
(***************************************************************************)
Sending == {"sendRequest", "sendShutdown"}

====
